---- MODULE Spec2Model ----
(***************************************************************************)
(* A model of packages/server/src/http/requestHandler.ts: the HTTP         *)
(* transport adapter requestHandlerInner, which turns one HTTP request     *)
(* into one or more procedure calls and their outcomes into one response.  *)
(*                                                                         *)
(* JavaScript runs each stretch of code between two awaits atomically, so  *)
(* every action below is one such stretch: from the entry of the handler   *)
(* to `await createContext()`, from the settlement of the context promise  *)
(* to `await Promise.all(...)`, the settlement of one procedure call (the  *)
(* rest of its map callback), and the resumption of the handler after the  *)
(* join.                                                                   *)
(***************************************************************************)
EXTENDS Integers, Sequences, FiniteSets, TLC

(***************************************************************************)
(* Bounds of the model.                                                    *)
(***************************************************************************)
\* longest opts.path, in characters
MaxPathLen == 2

(***************************************************************************)
(* JavaScript values.  A value is a record [t, n, e, de]: t its type tag,  *)
(* n the payload of a number, e the own enumerable properties of an object *)
(* or array (key string -> number), de how many times the transformer's    *)
(* input.deserialize has been applied to it.                               *)
(***************************************************************************)
NoProps == [k \in {} |-> 0]

Val(t, n, e) == [t |-> t, n |-> n, e |-> e, de |-> 0]

Undefined == Val("undefined", 0, NoProps)

JNull == Val("null", 0, NoProps)

JNum(n) == Val("number", n, NoProps)

JArr12 == Val("array", 0, [k \in {"0", "1"} |-> IF k = "0" THEN 1 ELSE 2])

JObj(e) == Val("object", 0, e)

\* the value `undefined` standing for a path that was not given
UndefinedPath == <<"undefined">>

\* the value `undefined` standing for a context that was not built
UndefinedCtx == "undefined"

(***************************************************************************)
(* JSON.parse on the texts the requests of the model carry.                *)
(***************************************************************************)
RawTexts ==
    { "not-json", "null", "1", "[1,2]", "{\"0\":1,\"1\":2}", "{\"1\":2}",
      "{\"x\":1}" }

JSONParse(text) ==
    CASE text = "null" -> [ok |-> TRUE, value |-> JNull]
      [] text = "1" -> [ok |-> TRUE, value |-> JNum(1)]
      [] text = "[1,2]" -> [ok |-> TRUE, value |-> JArr12]
      [] text = "{\"0\":1,\"1\":2}" ->
            [ok |-> TRUE,
             value |-> JObj([k \in {"0", "1"} |-> IF k = "0" THEN 1 ELSE 2])]
      [] text = "{\"1\":2}" ->
            [ok |-> TRUE, value |-> JObj([k \in {"1"} |-> 2])]
      [] text = "{\"x\":1}" ->
            [ok |-> TRUE, value |-> JObj([k \in {"x"} |-> 1])]
      [] OTHER -> [ok |-> FALSE, value |-> Undefined]

(***************************************************************************)
(* Errors.  A thrown value is [trpc, code]: a TRPCError carrying a code,   *)
(* or any other thrown value.                                              *)
(***************************************************************************)
TRPCError(code) == [trpc |-> TRUE, code |-> code]

PlainError(what) == [trpc |-> FALSE, code |-> what]

\* getErrorFromUnknown: a TRPCError is kept, anything else is wrapped as an
\* INTERNAL_SERVER_ERROR that keeps the original as its cause
getErrorFromUnknown(thrown) ==
    IF thrown.trpc
    THEN [code |-> thrown.code, cause |-> "none"]
    ELSE [code |-> "INTERNAL_SERVER_ERROR", cause |-> thrown.code]

NoError == [code |-> "none", cause |-> "none"]

(***************************************************************************)
(* The request and the options of the handler.                             *)
(*   req.method                                                            *)
(*   req.batch     what req.query.get('batch') returns ("null" if absent)  *)
(*   req.hasInput  req.query.has('input')                                  *)
(*   req.input     req.query.get('input')                                  *)
(*   req.body      [kind, text, value]: undefined, a string, or a value    *)
(*                 the HTTP layer has already decoded                      *)
(*   path          opts.path, a sequence of characters                     *)
(*   batching      opts.batching?.enabled: "undefined", "true" or "false"  *)
(*   transformer   router._def.transformer: "default" never throws,        *)
(*                 "strict" throws on null and on the number 2             *)
(***************************************************************************)
\* the names of the members the object literal HTTP_METHOD_PROCEDURE_TYPE_MAP
\* inherits from Object.prototype
ObjectPrototypeMembers ==
    { "constructor", "toString", "toLocaleString", "valueOf",
      "hasOwnProperty", "isPrototypeOf", "propertyIsEnumerable", "__proto__",
      "__defineGetter__", "__defineSetter__", "__lookupGetter__",
      "__lookupSetter__" }

Methods == {"HEAD", "GET", "POST", "PATCH", "PUT", "constructor"}

BatchFlags == {"null", "1", "true"}

BatchingOptions == {"undefined", "true", "false"}

Transformers == {"default", "strict"}

PathChars == {"a", ","}

PathStrings == UNION {[1..n -> PathChars] : n \in 0..MaxPathLen}

NoBodyGiven == [kind |-> "undefined", text |-> "", value |-> Undefined]

StringBody(text) == [kind |-> "string", text |-> text, value |-> Undefined]

ValueBody(v) == [kind |-> "value", text |-> "", value |-> v]

\* the texts a string body carries
BodyTexts == {"not-json", "null", "{\"0\":1,\"1\":2}"}

Bodies ==
    {NoBodyGiven} \cup {StringBody(t) : t \in BodyTexts}
        \cup {ValueBody(JArr12)}

\* the bodies of the requests whose method names an inherited member of the
\* method map
FewBodies == {NoBodyGiven, StringBody("not-json"), ValueBody(JArr12)}

\* A GET request carries its input in the query and any other request in the
\* body; the channel a method does not read is empty or carries a malformed
\* text.
Requests ==
    {[method |-> "GET", batch |-> b, hasInput |-> TRUE, input |-> t,
      body |-> NoBodyGiven]
        : b \in BatchFlags, t \in RawTexts}
    \cup
    {[method |-> "GET", batch |-> b, hasInput |-> FALSE, input |-> "",
      body |-> d]
        : b \in BatchFlags, d \in {NoBodyGiven, StringBody("not-json")}}
    \cup
    {[method |-> m, batch |-> b, hasInput |-> TRUE, input |-> "not-json",
      body |-> d]
        : m \in Methods \ ({"GET"} \cup ObjectPrototypeMembers),
          b \in BatchFlags, d \in Bodies}
    \cup
    {[method |-> m, batch |-> b, hasInput |-> TRUE, input |-> "not-json",
      body |-> d]
        : m \in Methods \cap ObjectPrototypeMembers, b \in BatchFlags,
          d \in FewBodies}

Options ==
    [req : Requests, path : PathStrings, batching : BatchingOptions,
     transformer : Transformers]

(***************************************************************************)
(* Pure functions of the handler.                                          *)
(***************************************************************************)
\* what the lookup of such a name in the map finds: the inherited member, a
\* function or an object, which is neither nullish nor one of the strings
\* 'query', 'mutation', 'subscription', 'unknown'
InheritedMember(name) == "Object.prototype." \o name

\* HTTP_METHOD_PROCEDURE_TYPE_MAP[req.method] ?? 'unknown': the map is a
\* plain object, so the lookup also finds the members it inherits
ProcedureTypeOf(method) ==
    CASE method = "GET" -> "query"
      [] method = "POST" -> "mutation"
      [] method = "PATCH" -> "subscription"
      [] method \in ObjectPrototypeMembers -> InheritedMember(method)
      [] OTHER -> "unknown"

\* a variant that takes an unconfigured batching for a disabled one
batchingEnabledDefaultOff(o) == o.batching = "true"

\* opts.batching?.enabled ?? true
batchingEnabled(o) == o.batching # "false"

\* req.query.get('batch') === '1'
isBatchCall(o) == o.req.batch = "1"

\* a variant that takes a malformed text for an absent input
getRawProcedureInputSwallowsErrors(req) ==
    IF req.method = "GET"
    THEN IF ~req.hasInput
         THEN [ok |-> TRUE, value |-> Undefined]
         ELSE [ok |-> TRUE, value |-> JSONParse(req.input).value]
    ELSE IF req.body.kind = "string"
         THEN [ok |-> TRUE, value |-> JSONParse(req.body.text).value]
         ELSE [ok |-> TRUE, value |-> req.body.value]

\* getRawProcedureInputOrThrow: [ok, value]; not ok is a thrown PARSE_ERROR
getRawProcedureInputOrThrow(req) ==
    IF req.method = "GET"
    THEN IF ~req.hasInput
         THEN [ok |-> TRUE, value |-> Undefined]
         ELSE JSONParse(req.input)
    ELSE IF req.body.kind = "string"
         THEN JSONParse(req.body.text)
         ELSE [ok |-> TRUE, value |-> req.body.value]

RECURSIVE SplitFrom(_, _, _, _)
SplitFrom(s, i, cur, out) ==
    IF i > Len(s)
    THEN Append(out, cur)
    ELSE IF s[i] = ","
         THEN SplitFrom(s, i + 1, <<>>, Append(out, cur))
         ELSE SplitFrom(s, i + 1, Append(cur, s[i]), out)

\* String.prototype.split(',')
SplitOnComma(s) == SplitFrom(s, 1, <<>>, <<>>)

\* a variant that splits the path of a single call too
PathsAlwaysSplit(o) == SplitOnComma(o.path)

\* paths = isBatchCall ? opts.path.split(',') : [opts.path]
PathsOf(o) == IF isBatchCall(o) THEN SplitOnComma(o.path) ELSE <<o.path>>

\* router._def.transformer.input.deserialize: [ok, value]
transformerInputDeserialize(tr, v) ==
    IF tr = "strict" /\ (v.t = "null" \/ (v.t = "number" /\ v.n = 2))
    THEN [ok |-> FALSE, value |-> Undefined]
    ELSE [ok |-> TRUE, value |-> [v EXCEPT !.de = @ + 1]]

\* what a throwing transformer throws
TransformerThrown == PlainError("transformer")

NoThrown == PlainError("none")

\* a variant that takes a JSON null for an absent value
deserializeInputValueSkipsNull(tr, rawValue) ==
    IF rawValue.t \notin {"undefined", "null"}
    THEN transformerInputDeserialize(tr, rawValue)
    ELSE [ok |-> TRUE, value |-> rawValue]

deserializeInputValue(tr, rawValue) ==
    IF rawValue.t # "undefined"
    THEN transformerInputDeserialize(tr, rawValue)
    ELSE [ok |-> TRUE, value |-> rawValue]

\* the decimal string of a positional index, as property access coerces it
IndexKey(index) ==
    IF index < 10
    THEN <<"0", "1", "2", "3", "4", "5", "6", "7", "8", "9">>[index + 1]
    ELSE "10+"

\* the typeof operator
TypeOf(v) == IF v.t \in {"null", "array", "object"} THEN "object" ELSE v.t

\* a variant that forgets that an array is an object too
NotABatchObjectMissesArrays(rawInput) ==
    \/ rawInput.t \in {"null", "undefined"}
    \/ TypeOf(rawInput) # "object"

\* rawInput == null || typeof rawInput !== 'object' || Array.isArray(rawInput)
NotABatchObject(rawInput) ==
    \/ rawInput.t \in {"null", "undefined"}
    \/ TypeOf(rawInput) # "object"
    \/ rawInput.t = "array"

\* getInputs: [ok, thrown, inputs]; inputs maps a key string to a decoded value
getInputs(o, rawInput) ==
    IF ~isBatchCall(o)
    THEN LET d == deserializeInputValue(o.transformer, rawInput)
         IN  IF d.ok
             THEN [ok |-> TRUE, thrown |-> NoThrown,
                   inputs |-> [k \in {"0"} |-> d.value]]
             ELSE [ok |-> FALSE, thrown |-> TransformerThrown,
                   inputs |-> NoProps]
    ELSE IF NotABatchObject(rawInput)
         THEN [ok |-> FALSE, thrown |-> TRPCError("BAD_REQUEST"),
               inputs |-> NoProps]
         ELSE LET d == [k \in DOMAIN rawInput.e |->
                            deserializeInputValue(o.transformer,
                                                  JNum(rawInput.e[k]))]
              IN  IF \A k \in DOMAIN d : d[k].ok
                  THEN [ok |-> TRUE, thrown |-> NoThrown,
                        inputs |-> [k \in DOMAIN d |-> d[k].value]]
                  ELSE [ok |-> FALSE, thrown |-> TransformerThrown,
                        inputs |-> NoProps]

\* a variant that takes the position of a path, counted from one, for its
\* index
InputAtPosition(inputs, index) ==
    IF IndexKey(index + 1) \in DOMAIN inputs
    THEN inputs[IndexKey(index + 1)]
    ELSE Undefined

\* inputs[index]
InputAt(inputs, index) ==
    IF IndexKey(index) \in DOMAIN inputs
    THEN inputs[IndexKey(index)]
    ELSE Undefined

(***************************************************************************)
(* The responder.                                                          *)
(***************************************************************************)
NoOutput == [proc |-> UndefinedPath, input |-> Undefined, ctx |-> UndefinedCtx]

NoShape ==
    [error |-> NoError, type |-> "none", path |-> UndefinedPath,
     input |-> Undefined, ctx |-> UndefinedCtx]

\* router.getErrorShape({error, type, path, input, ctx}): the router's
\* formatter is pure; the shape is the record of what it was given
getErrorShape(error, type, path, input, c) ==
    [error |-> error, type |-> type, path |-> path, input |-> input,
     ctx |-> c]

\* { id: null, error: shape }
ErrorEnvelope(shape) ==
    [id |-> "null", kind |-> "error", error |-> shape, data |-> NoOutput,
     serialized |-> FALSE]

\* { id: null, result: { type: 'data', data } }
ResultEnvelope(data) ==
    [id |-> "null", kind |-> "result", error |-> NoShape, data |-> data,
     serialized |-> FALSE]

\* the HTTP status of an error code
StatusOfCode(code) ==
    CASE code = "PARSE_ERROR" -> 400
      [] code = "BAD_REQUEST" -> 400
      [] code = "UNAUTHORIZED" -> 401
      [] code = "NOT_FOUND" -> 404
      [] code = "METHOD_NOT_SUPPORTED" -> 405
      [] OTHER -> 500

\* getHTTPStatusCode: 200 when every envelope is a success, else the status
\* of the first failing envelope
getHTTPStatusCode(envs) ==
    IF \A i \in 1..Len(envs) : envs[i].kind = "result"
    THEN 200
    ELSE LET first == CHOOSE i \in 1..Len(envs) :
                          /\ envs[i].kind = "error"
                          /\ \A j \in 1..(i - 1) : envs[j].kind = "result"
         IN  StatusOfCode(envs[first].error.error.code)

\* transformTRPCResponse: the output serializer applied to each envelope
transformTRPCResponse(envs) ==
    [i \in 1..Len(envs) |-> [envs[i] EXCEPT !.serialized = TRUE]]

\* what responseMeta may return: nothing, a status, a falsy status, headers
NoMeta == [hasStatus |-> FALSE, status |-> 0, headers |-> NoProps]

MetaReturns ==
    { NoMeta,
      [hasStatus |-> TRUE, status |-> 418, headers |-> NoProps],
      [hasStatus |-> TRUE, status |-> 0, headers |-> NoProps],
      [hasStatus |-> FALSE, status |-> 0,
       headers |-> [k \in {"Content-Type", "X-Meta"} |-> "meta"]] }

DefaultHeaders == [k \in {"Content-Type"} |-> "application/json"]

\* for (const [key, value] of Object.entries(meta.headers ?? {}))
MergeHeaders(headers, extra) ==
    [k \in DOMAIN headers \cup DOMAIN extra |->
        IF k \in DOMAIN extra THEN extra[k] ELSE headers[k]]

\* a variant that lets the hook override the status of a success only
StatusAfterMetaOnSuccessOnly(status, meta) ==
    IF meta.hasStatus /\ meta.status # 0 /\ status = 200
    THEN meta.status
    ELSE status

\* if (meta.status) { status = meta.status }
StatusAfterMeta(status, meta) ==
    IF meta.hasStatus /\ meta.status # 0 THEN meta.status ELSE status

NoBody == [isArray |-> FALSE, envs |-> <<>>]

NoResult ==
    [kind |-> "none", status |-> 0, headers |-> NoProps, hasBody |-> FALSE,
     body |-> NoBody]

\* return { status: 204 }
HeadResponse ==
    [kind |-> "response", status |-> 204, headers |-> NoProps,
     hasBody |-> FALSE, body |-> NoBody]

\* the handler's promise rejected: no response
Rejected == [NoResult EXCEPT !.kind = "rejected"]

\* endResponse(untransformedJSON, errors), given what responseMeta returned;
\* untransformedJSON is the envelopes and whether they are an array
endResponse(isArray, envs, meta) ==
    [kind |-> "response",
     status |-> StatusAfterMeta(getHTTPStatusCode(envs), meta),
     headers |-> MergeHeaders(DefaultHeaders, meta.headers),
     hasBody |-> TRUE,
     body |-> [isArray |-> isArray, envs |-> transformTRPCResponse(envs)]]

\* the argument of responseMeta
MetaArgs(c, ps, type, envs, errors) ==
    [ctx |-> c, paths |-> ps, type |-> type, data |-> envs,
     errors |-> errors]

(***************************************************************************)
(* The collaborators' behaviours.                                          *)
(***************************************************************************)
\* what createContext may resolve to
Contexts == {"ctxA"}

\* what createContext may throw
ContextThrown == {PlainError("createContext"), TRPCError("UNAUTHORIZED")}

\* what callProcedure throws when the call fails: NOT_FOUND for the empty
\* path, which names no procedure, and the procedure's own error otherwise
ProcedureThrown(path) ==
    IF path = <<>> THEN TRPCError("NOT_FOUND") ELSE PlainError("procedure")

\* what onError throws when it throws
OnErrorThrown == PlainError("onError")

\* what callProcedure({ctx, router, path, input, type}) resolves to when the
\* procedure succeeds
OutputOf(call) == [proc |-> call.path, input |-> call.input, ctx |-> call.ctx]

(***************************************************************************)
(* State.                                                                  *)
(*   opts        the options of the handler, request included              *)
(*   pc          where the handler is: "start", "awaitCtx" (suspended on   *)
(*               createContext), "awaitAll" (suspended on Promise.all),    *)
(*               "returned" (resolved with a response), "rejected"         *)
(*   ctx         the handler's variable ctx                                *)
(*   paths       the handler's variable paths: [def, list]                 *)
(*   ctxCalls    the number of invocations of createContext                *)
(*   procLog     the invocations of callProcedure, in order                *)
(*   calls       the promise of each map callback: its call's arguments,   *)
(*               its state and what it settled with                        *)
(*   settled     the indices of the callbacks in the order they settled    *)
(*   join        the promise of Promise.all: [state, reason]               *)
(*   onErrorLog  the invocations of onError, in order                      *)
(*   metaLog     the invocations of responseMeta, in order                 *)
(*   result      what the handler's promise settled with                   *)
(***************************************************************************)
VARIABLES opts, pc, ctx, paths, ctxCalls, procLog, calls, settled, join,
          onErrorLog, metaLog, result

vars ==
    <<opts, pc, ctx, paths, ctxCalls, procLog, calls, settled, join,
      onErrorLog, metaLog, result>>

type == ProcedureTypeOf(opts.req.method)

rawInput == getRawProcedureInputOrThrow(opts.req).value

JoinIdle == [state |-> "idle", reason |-> NoThrown]

Init ==
    /\ opts \in Options
    /\ pc = "start"
    /\ ctx = UndefinedCtx
    /\ paths = [def |-> FALSE, list |-> <<>>]
    /\ ctxCalls = 0
    /\ procLog = <<>>
    /\ calls = <<>>
    /\ settled = <<>>
    /\ join = JoinIdle
    /\ onErrorLog = <<>>
    /\ metaLog = <<>>
    /\ result = NoResult

\* a variant that answers the probe only after the batching gate
IsHeadProbeAfterBatchGate(o) ==
    o.req.method = "HEAD" /\ ~(isBatchCall(o) /\ ~batchingEnabled(o))

\* if (req.method === 'HEAD'): the probe is answered before any gate
IsHeadProbe(o) == o.req.method = "HEAD"

(***************************************************************************)
(* The request-level gates before the context is built: the first one that *)
(* fails, as [failed, thrown].                                             *)
(***************************************************************************)
\* a variant that tests the method before the batching configuration
EarlyGateMethodFirst(o) ==
    IF ProcedureTypeOf(o.req.method) \in {"unknown", "subscription"}
    THEN [failed |-> TRUE, thrown |-> TRPCError("METHOD_NOT_SUPPORTED")]
    ELSE IF isBatchCall(o) /\ ~batchingEnabled(o)
    THEN [failed |-> TRUE,
          thrown |-> PlainError("Batching is not enabled on the server")]
    ELSE IF ~getRawProcedureInputOrThrow(o.req).ok
    THEN [failed |-> TRUE, thrown |-> TRPCError("PARSE_ERROR")]
    ELSE [failed |-> FALSE, thrown |-> NoThrown]

EarlyGate(o) ==
    IF isBatchCall(o) /\ ~batchingEnabled(o)
    THEN [failed |-> TRUE,
          thrown |-> PlainError("Batching is not enabled on the server")]
    ELSE IF ProcedureTypeOf(o.req.method) \in {"unknown", "subscription"}
    THEN [failed |-> TRUE, thrown |-> TRPCError("METHOD_NOT_SUPPORTED")]
    ELSE IF ~getRawProcedureInputOrThrow(o.req).ok
    THEN [failed |-> TRUE, thrown |-> TRPCError("PARSE_ERROR")]
    ELSE [failed |-> FALSE, thrown |-> NoThrown]

(***************************************************************************)
(* The catch block of the handler: shape the error, report it to onError,  *)
(* respond.  An onError that throws rejects the handler's promise.         *)
(***************************************************************************)
\* the envelope of the catch block: path and input are undefined
CatchEnvelope(error, ty, c) ==
    ErrorEnvelope(getErrorShape(error, ty, UndefinedPath, Undefined, c))

\* a variant that answers a batch request with an array of the one envelope
CatchResultAsArray(o, json) == [isArray |-> isBatchCall(o), envs |-> <<json>>]

\* endResponse(json, [error]): the catch block responds with the one
\* envelope, never with an array
CatchResult(o, json) == [isArray |-> FALSE, envs |-> <<json>>]

CatchAndRespond(thrown, c, ps) ==
    LET error == getErrorFromUnknown(thrown)
        json == CatchResult(opts, CatchEnvelope(error, type, c))
    IN  \E threw \in BOOLEAN :
          /\ onErrorLog' =
                Append(onErrorLog,
                       [error |-> error, path |-> UndefinedPath,
                        input |-> Undefined, ctx |-> c, type |-> type,
                        threw |-> threw])
          /\ IF threw
             THEN /\ pc' = "rejected"
                  /\ result' = Rejected
                  /\ metaLog' = metaLog
             ELSE \E meta \in MetaReturns :
                    /\ pc' = "returned"
                    /\ metaLog' =
                          Append(metaLog,
                                 [args |-> MetaArgs(c, ps, type, json.envs,
                                                    <<error>>),
                                  returned |-> meta])
                    /\ result' = endResponse(json.isArray, json.envs, meta)

(***************************************************************************)
(* From the entry of the handler to its first await.                       *)
(***************************************************************************)
\* if (req.method === 'HEAD') return { status: 204 }
HeadProbe ==
    /\ pc = "start"
    /\ IsHeadProbe(opts)
    /\ pc' = "returned"
    /\ result' = HeadResponse
    /\ UNCHANGED <<opts, ctx, paths, ctxCalls, procLog, calls, settled, join,
                   onErrorLog, metaLog>>

\* a gate before createContext throws
RejectRequest ==
    /\ pc = "start"
    /\ ~IsHeadProbe(opts)
    /\ EarlyGate(opts).failed
    /\ CatchAndRespond(EarlyGate(opts).thrown, ctx, paths)
    /\ UNCHANGED <<opts, ctx, paths, ctxCalls, procLog, calls, settled, join>>

\* the gates pass: paths are split and createContext() is invoked
StartContext ==
    /\ pc = "start"
    /\ ~IsHeadProbe(opts)
    /\ ~EarlyGate(opts).failed
    /\ paths' = [def |-> TRUE, list |-> PathsOf(opts)]
    /\ ctxCalls' = ctxCalls + 1
    /\ pc' = "awaitCtx"
    /\ UNCHANGED <<opts, ctx, procLog, calls, settled, join, onErrorLog,
                   metaLog, result>>

(***************************************************************************)
(* From the settlement of createContext() to the next await.               *)
(***************************************************************************)
\* createContext() rejects
ContextFails ==
    /\ pc = "awaitCtx"
    /\ \E thrown \in ContextThrown : CatchAndRespond(thrown, ctx, paths)
    /\ UNCHANGED <<opts, ctx, paths, ctxCalls, procLog, calls, settled, join>>

\* createContext() resolves and getInputs() throws
InputsRejected ==
    /\ pc = "awaitCtx"
    /\ ~getInputs(opts, rawInput).ok
    /\ \E c \in Contexts :
          /\ ctx' = c
          /\ CatchAndRespond(getInputs(opts, rawInput).thrown, c, paths)
    /\ UNCHANGED <<opts, paths, ctxCalls, procLog, calls, settled, join>>

\* the indices paths.map visits
IndicesToCall(ps) == 1..Len(ps)

\* a variant that starts the calls with the context variable as it was
\* before the factory's value was assigned to it
NewCallStaleCtx(ps, inputs, c, i) ==
    [path |-> ps[i], input |-> InputAt(inputs, i - 1), ctx |-> ctx,
     type |-> type, state |-> "pending", failed |-> FALSE,
     error |-> NoError, data |-> NoOutput, reason |-> NoThrown]

\* the call paths.map starts for the path at position i (index i - 1)
NewCall(ps, inputs, c, i) ==
    [path |-> ps[i], input |-> InputAt(inputs, i - 1), ctx |-> c,
     type |-> type, state |-> "pending", failed |-> FALSE,
     error |-> NoError, data |-> NoOutput, reason |-> NoThrown]

\* the arguments of a call, as callProcedure receives them
ArgsOf(call) ==
    [ctx |-> call.ctx, path |-> call.path, input |-> call.input,
     type |-> call.type]

\* createContext() resolves, getInputs() returns, and paths.map invokes
\* callProcedure once per path before the handler suspends on Promise.all
StartCalls ==
    /\ pc = "awaitCtx"
    /\ getInputs(opts, rawInput).ok
    /\ \E c \in Contexts :
          LET inputs == getInputs(opts, rawInput).inputs
              started == [i \in IndicesToCall(paths.list) |->
                              NewCall(paths.list, inputs, c, i)]
          IN  /\ ctx' = c
              /\ calls' = started
              /\ procLog' = [i \in DOMAIN started |->
                                [index |-> i - 1, args |-> ArgsOf(started[i])]]
    /\ join' = [state |-> "pending", reason |-> NoThrown]
    /\ pc' = "awaitAll"
    /\ UNCHANGED <<opts, paths, ctxCalls, settled, onErrorLog, metaLog, result>>

(***************************************************************************)
(* The settlement of one procedure call: the rest of its map callback.     *)
(* These steps do not depend on where the handler is: nothing cancels a    *)
(* call.                                                                   *)
(***************************************************************************)
\* how the promise of Promise.all reacts to the settlement of callback i:
\* it rejects with the first rejection and fulfils once all have fulfilled
PromiseAll(j, cs, i) ==
    IF j.state # "pending"
    THEN j
    ELSE IF cs[i].state = "rejected"
    THEN [state |-> "rejected", reason |-> cs[i].reason]
    ELSE IF \A k \in DOMAIN cs : cs[k].state = "fulfilled"
    THEN [state |-> "fulfilled", reason |-> NoThrown]
    ELSE j

\* callProcedure resolves: return { input, path, data: output }
CallSucceeds(i) ==
    /\ i \in DOMAIN calls
    /\ calls[i].state = "pending"
    /\ calls' = [calls EXCEPT ![i].state = "fulfilled",
                              ![i].data = OutputOf(calls[i])]
    /\ settled' = Append(settled, i)
    /\ join' = PromiseAll(join, calls', i)
    /\ UNCHANGED <<opts, pc, ctx, paths, ctxCalls, procLog, onErrorLog,
                   metaLog, result>>

\* callProcedure rejects: the error is normalised and reported to onError;
\* return { input, path, error }, unless onError throws
CallFails(i) ==
    /\ i \in DOMAIN calls
    /\ calls[i].state = "pending"
    /\ \E threw \in BOOLEAN :
          LET error == getErrorFromUnknown(ProcedureThrown(calls[i].path))
          IN  /\ onErrorLog' =
                    Append(onErrorLog,
                           [error |-> error, path |-> calls[i].path,
                            input |-> calls[i].input, ctx |-> ctx,
                            type |-> type, threw |-> threw])
              /\ calls' =
                    IF threw
                    THEN [calls EXCEPT ![i].state = "rejected",
                                       ![i].failed = TRUE,
                                       ![i].error = error,
                                       ![i].reason = OnErrorThrown]
                    ELSE [calls EXCEPT ![i].state = "fulfilled",
                                       ![i].failed = TRUE,
                                       ![i].error = error]
    /\ settled' = Append(settled, i)
    /\ join' = PromiseAll(join, calls', i)
    /\ UNCHANGED <<opts, pc, ctx, paths, ctxCalls, procLog, metaLog, result>>

(***************************************************************************)
(* The resumption of the handler after Promise.all.                        *)
(***************************************************************************)
\* a variant that collects the callbacks' values in the order they settled
RawResultsInSettleOrder(cs, order) == [k \in 1..Len(cs) |-> cs[order[k]]]

\* what Promise.all resolves to: the callbacks' values in the order of the
\* paths, whatever the order they settled in
RawResults(cs, order) == [i \in 1..Len(cs) |-> cs[i]]

\* a variant that keeps the error of the first failing call only
ErrorsOfFirstFailure(rawResults) ==
    LET failing == SelectSeq(rawResults, LAMBDA obj : obj.failed)
    IN  [k \in 1..(IF Len(failing) > 0 THEN 1 ELSE 0) |-> failing[k].error]

\* rawResults.flatMap((obj) => (obj.error ? [obj.error] : []))
ErrorsOf(rawResults) ==
    LET failing == SelectSeq(rawResults, LAMBDA obj : obj.failed)
    IN  [k \in 1..Len(failing) |-> failing[k].error]

\* the envelope of one raw result
EnvelopeOf(obj, c) ==
    IF obj.failed
    THEN ErrorEnvelope(getErrorShape(obj.error, obj.type, obj.path,
                                     obj.input, c))
    ELSE ResultEnvelope(obj.data)

\* rawResults.map((obj) => ...)
ResultEnvelopes(rawResults, c) ==
    [i \in 1..Len(rawResults) |-> EnvelopeOf(rawResults[i], c)]

\* isBatchCall ? resultEnvelopes : resultEnvelopes[0]
ResultOf(o, resultEnvelopes) ==
    IF isBatchCall(o)
    THEN [isArray |-> TRUE, envs |-> resultEnvelopes]
    ELSE [isArray |-> FALSE, envs |-> <<resultEnvelopes[1]>>]

\* every callback fulfilled: build the envelopes and respond
JoinFulfilled ==
    /\ pc = "awaitAll"
    /\ join.state = "fulfilled"
    /\ LET rawResults == RawResults(calls, settled)
           errors == ErrorsOf(rawResults)
           json == ResultOf(opts, ResultEnvelopes(rawResults, ctx))
       IN  \E meta \in MetaReturns :
             /\ metaLog' =
                   Append(metaLog,
                          [args |-> MetaArgs(ctx, paths, type, json.envs,
                                             errors),
                           returned |-> meta])
             /\ result' = endResponse(json.isArray, json.envs, meta)
    /\ pc' = "returned"
    /\ UNCHANGED <<opts, ctx, paths, ctxCalls, procLog, calls, settled, join,
                   onErrorLog>>

\* a callback rejected: the handler resumes in its catch block
JoinRejected ==
    /\ pc = "awaitAll"
    /\ join.state = "rejected"
    /\ CatchAndRespond(join.reason, ctx, paths)
    /\ UNCHANGED <<opts, ctx, paths, ctxCalls, procLog, calls, settled, join>>

Next ==
    \/ HeadProbe
    \/ RejectRequest
    \/ StartContext
    \/ ContextFails
    \/ InputsRejected
    \/ StartCalls
    \/ \E i \in DOMAIN calls : CallSucceeds(i)
    \/ \E i \in DOMAIN calls : CallFails(i)
    \/ JoinFulfilled
    \/ JoinRejected

Spec == Init /\ [][Next]_vars

(***************************************************************************)
(* Vocabulary of the properties.                                           *)
(***************************************************************************)
\* the handler has returned a response
Returned == pc = "returned"

\* the envelopes of the response body
Envs == result.body.envs

\* no invocation of onError has thrown
NoHookThrew == \A k \in DOMAIN onErrorLog : ~onErrorLog[k].threw

\* the text the request carries as its raw input is malformed JSON
MalformedRaw ==
    \/ /\ opts.req.method = "GET"
       /\ opts.req.hasInput
       /\ opts.req.input = "not-json"
    \/ /\ opts.req.method # "GET"
       /\ opts.req.body.kind = "string"
       /\ opts.req.body.text = "not-json"

\* the batch flag is "1" while batching is disabled by configuration
BatchWhileDisabled == opts.req.batch = "1" /\ opts.batching = "false"

\* the gates, each evaluated and failing: the gates before it have passed
BatchingGateFails == opts.req.method # "HEAD" /\ BatchWhileDisabled

\* the method is one the method gate lets through
MethodServed ==
    /\ opts.req.method # "HEAD"
    /\ type \notin {"unknown", "subscription"}

MethodGateFails ==
    /\ opts.req.method # "HEAD"
    /\ type \in {"unknown", "subscription"}
    /\ ~BatchWhileDisabled

ParseGateFails ==
    /\ MethodServed
    /\ ~BatchWhileDisabled
    /\ MalformedRaw

ContextFailed == ctxCalls = 1 /\ pc # "awaitCtx" /\ ctx = UndefinedCtx

ContextBuilt == ctx # UndefinedCtx

ShapeGateFails ==
    /\ opts.req.batch = "1"
    /\ ContextBuilt
    /\ rawInput.t \in {"undefined", "null", "array", "number"}

\* the response body is one top-level error envelope, not a sequence
SingleTopLevelError ==
    /\ result.kind = "response"
    /\ result.hasBody
    /\ ~result.body.isArray
    /\ Len(Envs) = 1
    /\ Envs[1].kind = "error"
    /\ Envs[1].error.path = UndefinedPath
    /\ Envs[1].error.input = Undefined

\* the code of that one error
TopLevelCode == Envs[1].error.error.code

\* the request went through every request-level gate: a servable method,
\* batching allowed, well-formed input, a context, decodable inputs
PassedAllGates ==
    /\ MethodServed
    /\ ~BatchWhileDisabled
    /\ ~MalformedRaw
    /\ ContextBuilt
    /\ ~ShapeGateFails
    /\ getInputs(opts, rawInput).ok

\* envelope e is the outcome of call i, made for path p
IsOutcomeOf(e, i, p) ==
    /\ calls[i].path = p
    /\ calls[i].state = "fulfilled"
    /\ IF calls[i].failed
       THEN /\ e.kind = "error"
            /\ e.error.path = p
            /\ e.error.error = calls[i].error
            /\ e.error.input = calls[i].input
       ELSE /\ e.kind = "result"
            /\ e.data.proc = p
            /\ e.data.input = calls[i].input

(***************************************************************************)
(* C1.  A request that passes every request-level gate, with an onError    *)
(* that does not throw, is answered with one envelope per path: a single   *)
(* call with exactly one envelope that is not a sequence and is the        *)
(* outcome of the whole unsplit path, a batch of N comma-separated paths   *)
(* with a sequence of exactly N envelopes of which the i-th is the outcome *)
(* of the i-th path, whatever mix of successes and failures the calls had. *)
(***************************************************************************)
C1_OneEnvelopePerPath ==
    (PassedAllGates /\ NoHookThrew /\ pc \in {"returned", "rejected"}) =>
        /\ result.kind = "response"
        /\ result.hasBody
        /\ IF opts.req.batch = "1"
           THEN /\ result.body.isArray
                /\ Len(Envs) = Len(SplitOnComma(opts.path))
                /\ \A i \in 1..Len(Envs) :
                      IsOutcomeOf(Envs[i], i, SplitOnComma(opts.path)[i])
           ELSE /\ ~result.body.isArray
                /\ Len(Envs) = 1
                /\ IsOutcomeOf(Envs[1], 1, opts.path)

\* a batch of three answered with a failure first and a success last, the
\* last call having settled first
C1_Witness ==
    /\ Returned
    /\ PassedAllGates
    /\ NoHookThrew
    /\ result.body.isArray
    /\ Len(Envs) = 3
    /\ Envs[1].kind = "error"
    /\ Envs[3].kind = "result"
    /\ settled[1] = 3

(***************************************************************************)
(* C2.  A HEAD request is answered with status 204 and no body, and on     *)
(* that path neither the context factory, callProcedure, onError,          *)
(* responseMeta nor getErrorShape is invoked, whatever the batch flag, the *)
(* batching configuration, the path and the body are.                      *)
(***************************************************************************)
C2_HeadProbe ==
    opts.req.method = "HEAD" =>
        /\ pc \in {"start", "returned"}
        /\ ctxCalls = 0
        /\ procLog = <<>>
        /\ onErrorLog = <<>>
        /\ metaLog = <<>>
        /\ Returned =>
              /\ result.kind = "response"
              /\ result.status = 204
              /\ ~result.hasBody
              /\ Envs = <<>>

\* a HEAD request with batch=1, batching disabled and a malformed body has
\* been answered
C2_Witness ==
    /\ opts.req.method = "HEAD"
    /\ BatchWhileDisabled
    /\ MalformedRaw
    /\ Returned
    /\ result.status = 204

(***************************************************************************)
(* C3.  Whenever a request-level gate fails (batching disabled, method not *)
(* supported, input parse failure, context factory failure, batch input    *)
(* shape), no procedure has been invoked, and the response the handler     *)
(* returns holds exactly one top-level error envelope, shaped with path    *)
(* and input undefined, that is not a sequence even for a batch.           *)
(***************************************************************************)
C3_GateFailureIsOneTopLevelError ==
    (\/ BatchingGateFails
     \/ MethodGateFails
     \/ ParseGateFails
     \/ ContextFailed
     \/ ShapeGateFails) =>
        /\ procLog = <<>>
        /\ calls = <<>>
        /\ Returned => SingleTopLevelError

\* a batch of several paths aborted by the shape check
C3_Witness ==
    /\ ShapeGateFails
    /\ Len(paths.list) >= 2
    /\ Returned
    /\ SingleTopLevelError

(***************************************************************************)
(* C4.  The context factory is invoked at most once in a request, and      *)
(* exactly once when the batching, method and input-extraction gates have  *)
(* passed; no procedure is invoked before it has completed, every          *)
(* procedure invocation of the request receives the value it produced, and *)
(* no procedure is invoked if it fails.                                    *)
(***************************************************************************)
C4_ContextOnceBeforeCalls ==
    /\ ctxCalls <= 1
    /\ (/\ pc # "start"
        /\ MethodServed
        /\ ~BatchWhileDisabled
        /\ ~MalformedRaw) => ctxCalls = 1
    /\ procLog # <<>> =>
          /\ ctxCalls = 1
          /\ ContextBuilt
          /\ \A k \in DOMAIN procLog : procLog[k].args.ctx = ctx
    /\ ContextFailed => procLog = <<>>

\* a batch whose calls have all been started with the factory's context
C4_Witness ==
    /\ Len(procLog) >= 2
    /\ ctxCalls = 1
    /\ \A k \in DOMAIN procLog : procLog[k].args.ctx = "ctxA"

(***************************************************************************)
(* C5.  In a batch that reaches execution every path's procedure is        *)
(* invoked exactly once, whatever its siblings do, and the envelope        *)
(* sequence of the response is determined by the per-call results alone:   *)
(* envelope i is the envelope of call i's own result in every order of     *)
(* completion, so no call cancels, skips or reorders a sibling.            *)
(***************************************************************************)
C5_CallsIndependent ==
    (opts.req.batch = "1" /\ pc \in {"awaitAll", "returned", "rejected"}
        /\ ContextBuilt /\ getInputs(opts, rawInput).ok) =>
        /\ LET split == SplitOnComma(opts.path)
           IN  /\ Len(procLog) = Len(split)
               /\ \A i \in 1..Len(split) :
                     /\ Cardinality({k \in DOMAIN procLog :
                                        procLog[k].index = i - 1}) = 1
                     /\ \A k \in DOMAIN procLog :
                           procLog[k].index = i - 1 =>
                               procLog[k].args.path = split[i]
        /\ (Returned /\ result.body.isArray) =>
              /\ Len(Envs) = Len(calls)
              /\ \A i \in 1..Len(calls) :
                    /\ Envs[i].kind =
                          (IF calls[i].failed THEN "error" ELSE "result")
                    /\ calls[i].failed =>
                          /\ Envs[i].error.error = calls[i].error
                          /\ Envs[i].error.path = calls[i].path
                    /\ ~calls[i].failed => Envs[i].data = calls[i].data

\* a batch of three answered after its calls settled in reverse order, the
\* middle one failing
C5_Witness ==
    /\ Returned
    /\ result.body.isArray
    /\ settled = <<3, 2, 1>>
    /\ calls[2].failed
    /\ ~calls[1].failed
    /\ Envs[2].kind = "error"

(***************************************************************************)
(* C6.  As stated: whenever responseMeta returns an explicit status S, the *)
(* status of the response is S.  The code tests the returned status for    *)
(* truthiness, so a returned status of 0 is ignored.                       *)
(***************************************************************************)
\* what the last invocation of responseMeta returned
LastMeta == metaLog[Len(metaLog)].returned

\* the status the envelopes handed to responseMeta give by themselves
DerivedStatus == getHTTPStatusCode(metaLog[Len(metaLog)].args.data)

\* C6 as stated: an explicit status always becomes the response status
C6_AsStated ==
    (Returned /\ metaLog # <<>> /\ LastMeta.hasStatus) =>
        result.status = LastMeta.status

\* C6 as amended: whenever responseMeta returns an explicit non-zero status
\* S, the status of the response is S, for single and batch requests, for
\* all-success, partial-failure and abort outcomes, whatever the derived
\* status was; an explicit status of 0 is ignored like an absent one and the
\* derived status is kept
C6_NonZeroStatusOverrides ==
    (Returned /\ metaLog # <<>>) =>
        /\ (LastMeta.hasStatus /\ LastMeta.status # 0) =>
              result.status = LastMeta.status
        /\ (~LastMeta.hasStatus \/ LastMeta.status = 0) =>
              result.status = DerivedStatus

\* a batch with a failing call whose derived status the hook overrode
C6_Witness ==
    /\ Returned
    /\ result.body.isArray
    /\ Len(Envs) >= 2
    /\ \E i \in 1..Len(Envs) : Envs[i].kind = "error"
    /\ \E i \in 1..Len(Envs) : Envs[i].kind = "result"
    /\ LastMeta.hasStatus
    /\ LastMeta.status = 418
    /\ DerivedStatus # 418
    /\ result.status = 418

(***************************************************************************)
(* C7.  A request with batch=1 received while batching is disabled by      *)
(* configuration is answered with a single top-level error envelope, and   *)
(* neither the context factory nor any procedure is invoked; when batching *)
(* is not configured it is enabled: the same request is not rejected by    *)
(* this gate and goes on to the context factory.  The requests are those   *)
(* of the pipeline: a HEAD probe is answered before any gate (C2).         *)
(***************************************************************************)
\* the error of the batching gate
IsBatchingError(e) ==
    /\ e.kind = "error"
    /\ e.error.error.code = "INTERNAL_SERVER_ERROR"
    /\ e.error.error.cause = "Batching is not enabled on the server"

C7_BatchingDisabledRejects ==
    /\ (BatchWhileDisabled /\ opts.req.method # "HEAD") =>
          /\ ctxCalls = 0
          /\ procLog = <<>>
          /\ Returned => (SingleTopLevelError /\ IsBatchingError(Envs[1]))
    /\ (opts.req.batch = "1" /\ opts.batching \in {"undefined", "true"}) =>
          /\ (Returned /\ result.hasBody) =>
                \A i \in 1..Len(Envs) : ~IsBatchingError(Envs[i])
          /\ (/\ pc # "start"
              /\ MethodServed
              /\ ~MalformedRaw) => ctxCalls = 1

\* a POST batch of several paths rejected because batching is disabled
C7_Witness ==
    /\ opts.req.method = "POST"
    /\ BatchWhileDisabled
    /\ Len(SplitOnComma(opts.path)) >= 2
    /\ Returned
    /\ SingleTopLevelError
    /\ IsBatchingError(Envs[1])

(***************************************************************************)
(* C8.  As stated: GET is classified query, POST mutation, PATCH           *)
(* subscription and any other non-HEAD method unknown; every request       *)
(* classified unknown or subscription is answered with a single top-level  *)
(* METHOD_NOT_SUPPORTED error, and only queries and mutations reach        *)
(* callProcedure.  In the code the method map is a plain object, so a      *)
(* method named like a member of Object.prototype is classified as that    *)
(* member, which is neither 'unknown' nor 'subscription': the request      *)
(* passes the method gate and its procedure is invoked with that value as  *)
(* the type.  Besides, the batching gate comes before the method gate: a   *)
(* PATCH or PUT request with batch=1 while batching is disabled is         *)
(* answered with the batching error.                                       *)
(***************************************************************************)
\* the classification the claim gives
ClaimedType ==
    IF opts.req.method = "GET" THEN "query"
    ELSE IF opts.req.method = "POST" THEN "mutation"
    ELSE IF opts.req.method = "PATCH" THEN "subscription"
    ELSE "unknown"

\* the classification is the one every collaborator is handed, and only
\* queries and mutations reach callProcedure
ClassifiedAsClaimed ==
    /\ \A k \in DOMAIN onErrorLog : onErrorLog[k].type = ClaimedType
    /\ \A k \in DOMAIN metaLog : metaLog[k].args.type = ClaimedType
    /\ (Returned /\ result.hasBody) =>
          \A i \in 1..Len(Envs) :
              Envs[i].kind = "error" => Envs[i].error.type = ClaimedType
    /\ \A k \in DOMAIN procLog :
          /\ procLog[k].args.type = ClaimedType
          /\ procLog[k].args.type \in {"query", "mutation"}

\* C8 as stated
C8_AsStated ==
    /\ ClassifiedAsClaimed
    /\ (opts.req.method # "HEAD"
            /\ ClaimedType \in {"unknown", "subscription"}) =>
          /\ ctxCalls = 0
          /\ procLog = <<>>
          /\ Returned =>
                (SingleTopLevelError /\ TopLevelCode = "METHOD_NOT_SUPPORTED")

\* for the methods that name no member of Object.prototype the
\* classification is the claimed one, and every request classified unknown
\* or subscription is aborted before the input is extracted, with
\* METHOD_NOT_SUPPORTED unless the batching gate rejected it first
C8_HoldsForOtherMethods ==
    opts.req.method \notin ObjectPrototypeMembers =>
        /\ ClassifiedAsClaimed
        /\ (opts.req.method # "HEAD"
                /\ ClaimedType \in {"unknown", "subscription"}) =>
              /\ ctxCalls = 0
              /\ procLog = <<>>
              /\ Returned =>
                    /\ SingleTopLevelError
                    /\ IF BatchWhileDisabled
                       THEN IsBatchingError(Envs[1])
                       ELSE TopLevelCode = "METHOD_NOT_SUPPORTED"

\* a request with the method "constructor" was executed: its procedure was
\* invoked with the inherited member as the type and the answer is 200
C8_InheritedMemberServed ==
    /\ opts.req.method = "constructor"
    /\ ctxCalls = 1
    /\ Len(procLog) = 1
    /\ procLog[1].args.type = InheritedMember("constructor")
    /\ procLog[1].args.type \notin
          {"query", "mutation", "subscription", "unknown"}
    /\ Returned
    /\ result.status = 200
    /\ Envs[1].kind = "result"

(***************************************************************************)
(* C9.  As stated: a malformed GET input parameter, or a malformed string  *)
(* body of any non-GET request, is answered with a single top-level        *)
(* PARSE_ERROR.  The input is extracted only after the batching and method *)
(* gates.                                                                  *)
(***************************************************************************)
\* C9 as stated, for the requests of the pipeline (a HEAD probe is answered
\* before any gate, C2)
C9_AsStated ==
    (MalformedRaw /\ opts.req.method # "HEAD") =>
        /\ ctxCalls = 0
        /\ procLog = <<>>
        /\ Returned => (SingleTopLevelError /\ TopLevelCode = "PARSE_ERROR")

\* C9 as amended: when the raw input of a request that passes the batching
\* and method gates is malformed JSON (the GET input query parameter, or a
\* string body of another request), the request is aborted with a single
\* top-level PARSE_ERROR envelope, and neither the context factory nor any
\* procedure is invoked, for single and batch requests alike; a request
\* that fails an earlier gate is answered with that gate's error, whatever
\* the body
C9_MalformedInputRejected ==
    MalformedRaw =>
        /\ ctxCalls = 0
        /\ procLog = <<>>
        /\ (Returned /\ ParseGateFails) =>
              (SingleTopLevelError /\ TopLevelCode = "PARSE_ERROR")
        /\ (Returned /\ MethodGateFails) =>
              (SingleTopLevelError /\ TopLevelCode = "METHOD_NOT_SUPPORTED")
        /\ (Returned /\ BatchingGateFails) =>
              (SingleTopLevelError /\ IsBatchingError(Envs[1]))
        /\ (Returned /\ opts.req.method = "HEAD") => ~result.hasBody

\* a GET batch of several paths with a malformed input parameter
C9_Witness ==
    /\ opts.req.method = "GET"
    /\ opts.req.batch = "1"
    /\ MalformedRaw
    /\ Len(SplitOnComma(opts.path)) >= 2
    /\ Returned
    /\ SingleTopLevelError
    /\ TopLevelCode = "PARSE_ERROR"

(***************************************************************************)
(* C10.  As stated: a batch request whose raw input is not a non-null,     *)
(* non-array object is answered with a single top-level BAD_REQUEST.  The  *)
(* shape is checked after the context factory has run, and after the       *)
(* batching and method gates.                                              *)
(***************************************************************************)
\* the raw input was extracted and is absent, null, an array or a primitive
RawInputNotAnObject ==
    /\ ~MalformedRaw
    /\ rawInput.t \in {"undefined", "null", "array", "number"}

\* C10 as stated, for the requests of the pipeline (a HEAD probe is
\* answered before any gate, C2)
C10_AsStated ==
    /\ (/\ opts.req.batch = "1"
        /\ RawInputNotAnObject
        /\ opts.req.method # "HEAD") =>
          /\ procLog = <<>>
          /\ Returned => (SingleTopLevelError /\ TopLevelCode = "BAD_REQUEST")
    /\ (opts.req.batch # "1" /\ Returned /\ SingleTopLevelError) =>
          TopLevelCode # "BAD_REQUEST"

\* C10 as amended: for a batch request that passes the batching and method
\* gates and whose raw input is not a non-null, non-array object (absent,
\* JSON null, an array, or a primitive), no procedure is invoked, for every
\* number of paths, and once the context factory has succeeded the whole
\* request is aborted with a single top-level BAD_REQUEST envelope; if the
\* context factory fails, the request is aborted with the factory's error
\* instead; the check is never applied to non-batch requests, which go on
\* to execution with such an input
C10_BatchInputShape ==
    /\ (/\ opts.req.batch = "1"
        /\ RawInputNotAnObject
        /\ MethodServed
        /\ ~BatchWhileDisabled) =>
          /\ procLog = <<>>
          /\ (Returned /\ ContextBuilt) =>
                (SingleTopLevelError /\ TopLevelCode = "BAD_REQUEST")
          /\ (Returned /\ ~ContextBuilt) =>
                /\ SingleTopLevelError
                /\ TopLevelCode \in {"INTERNAL_SERVER_ERROR", "UNAUTHORIZED"}
                /\ ctxCalls = 1
    /\ (opts.req.batch # "1" /\ Returned /\ SingleTopLevelError) =>
          TopLevelCode # "BAD_REQUEST"
    /\ (/\ opts.req.batch # "1"
        /\ RawInputNotAnObject
        /\ MethodServed
        /\ ContextBuilt
        /\ opts.transformer = "default") => procLog # <<>>

\* a POST batch of three paths with an array body, aborted after the
\* context was built
C10_Witness ==
    /\ opts.req.method = "POST"
    /\ opts.req.batch = "1"
    /\ opts.req.body = ValueBody(JArr12)
    /\ Len(paths.list) = 3
    /\ ctxCalls = 1
    /\ ContextBuilt
    /\ Returned
    /\ SingleTopLevelError
    /\ TopLevelCode = "BAD_REQUEST"

(***************************************************************************)
(* C11.  In a batch request with object-shaped raw input R, the procedure  *)
(* for the path at index i is invoked with the deserialization of R's      *)
(* value at key i, and with absent input when R has no key i; in a single  *)
(* call the one procedure is invoked with the deserialization of the whole *)
(* raw input.                                                              *)
(***************************************************************************)
\* a raw value deserialized once
DeserializedOnce(v) == [t |-> v.t, n |-> v.n, e |-> v.e, de |-> 1]

\* the input the call at index i of a batch is to receive
PositionalInput(index) ==
    IF IndexKey(index) \in DOMAIN rawInput.e
    THEN DeserializedOnce(JNum(rawInput.e[IndexKey(index)]))
    ELSE Undefined

C11_PositionalInputs ==
    procLog # <<>> =>
        LET split == SplitOnComma(opts.path)
        IN  \A k \in DOMAIN procLog :
                IF opts.req.batch = "1"
                THEN /\ rawInput.t = "object"
                     /\ procLog[k].index = k - 1
                     /\ procLog[k].args.path = split[k]
                     /\ procLog[k].args.input = PositionalInput(k - 1)
                ELSE /\ k = 1
                     /\ procLog[k].args.input =
                           (IF rawInput.t = "undefined"
                            THEN Undefined
                            ELSE DeserializedOnce(rawInput))

\* a batch of three paths whose raw input has the keys 0 and 1: each of the
\* first two calls has its own value and the third has none
C11_Witness ==
    /\ opts.req.method = "POST"
    /\ opts.req.batch = "1"
    /\ DOMAIN rawInput.e = {"0", "1"}
    /\ Len(procLog) = 3
    /\ procLog[1].args.input.n = 1
    /\ procLog[2].args.input.n = 2
    /\ procLog[1].args.input.de = 1
    /\ procLog[3].args.input = Undefined

(***************************************************************************)
(* C12.  As stated: a throw of the onError hook does not affect the        *)
(* response: the handler answers as it does when the hook returns, with    *)
(* the envelope of every call's own outcome for a request that reached     *)
(* execution and with the aborting error's envelope otherwise.  In the     *)
(* code the hook is invoked unguarded inside the catch block of the map    *)
(* callback and inside the catch block of the handler: a throw in the      *)
(* first rejects Promise.all and replaces the whole body by one top-level  *)
(* envelope of the hook's own error, a throw in the second rejects the     *)
(* handler's promise and no response is returned.                          *)
(***************************************************************************)
\* the handler's promise has settled
Finished == pc \in {"returned", "rejected"}

\* the envelope of call i's own outcome, as the response carries it
OwnEnvelope(i) == [EnvelopeOf(calls[i], ctx) EXCEPT !.serialized = TRUE]

\* the response is the one the outcomes of the calls give
AnsweredFromOutcomes ==
    /\ result.kind = "response"
    /\ result.hasBody
    /\ result.body.isArray = (opts.req.batch = "1")
    /\ Len(Envs) = Len(calls)
    /\ \A i \in 1..Len(calls) :
          calls[i].state # "pending" => Envs[i] = OwnEnvelope(i)

\* C12 as stated
C12_AsStated ==
    (Finished /\ opts.req.method # "HEAD") =>
        /\ result.kind = "response"
        /\ calls # <<>> => AnsweredFromOutcomes

\* the statement holds in every run in which the hook returns
C12_HoldsWhenHookReturns == NoHookThrew => C12_AsStated

\* a batch in which one call succeeded and the hook threw on the failure of
\* another: the response is one top-level envelope of the hook's error
C12_HookErrorReplacesBody ==
    /\ Returned
    /\ opts.req.batch = "1"
    /\ Len(calls) >= 2
    /\ \E i \in 1..Len(calls) : calls[i].state = "fulfilled" /\ ~calls[i].failed
    /\ \E i \in 1..Len(calls) : calls[i].state = "rejected"
    /\ SingleTopLevelError
    /\ TopLevelCode = "INTERNAL_SERVER_ERROR"
    /\ Envs[1].error.error.cause = "onError"

(***************************************************************************)
(* C13.  As stated: the handler never terminates with an unhandled         *)
(* failure: whatever the context factory, the procedure calls, the input   *)
(* transformer and the onError hook do, it returns a response with a       *)
(* status and, unless the request is a HEAD probe, a body of shaped        *)
(* envelopes.  In the code a throw of onError inside the handler's catch   *)
(* block is caught by nothing: the handler's promise rejects.              *)
(***************************************************************************)
\* the response is well formed
WellFormedResponse ==
    /\ result.kind = "response"
    /\ result.status \in 100..599
    /\ opts.req.method # "HEAD" =>
          /\ result.hasBody
          /\ Len(Envs) >= 1
          /\ \A i \in 1..Len(Envs) :
                /\ Envs[i].kind \in {"error", "result"}
                /\ Envs[i].serialized

\* C13 as stated
C13_AsStated ==
    /\ pc # "rejected"
    /\ Finished => WellFormedResponse

\* the statement holds in every run in which the hook returns
C13_HoldsWhenHookReturns == NoHookThrew => C13_AsStated

\* the context factory failed, the hook threw on its error, and the handler
\* rejected without a response
C13_HandlerRejected ==
    /\ pc = "rejected"
    /\ ContextFailed
    /\ Len(onErrorLog) = 1
    /\ onErrorLog[1].threw
    /\ onErrorLog[1].path = UndefinedPath
    /\ result.kind = "rejected"
    /\ metaLog = <<>>

(***************************************************************************)
(* C14.  The input of a call is tri-state.  When the request carries no    *)
(* input (a GET request without the input query parameter, another request *)
(* without a body) the procedure receives the absent input, to which the   *)
(* transformer's input deserialization was not applied; when the input is  *)
(* present, JSON null included, the procedure receives the parsed value    *)
(* passed through the input deserialization exactly once.  An absent input *)
(* and a JSON null are told apart before the procedure is called: a        *)
(* transformer that rejects null aborts the request with null and lets the *)
(* absent input through.                                                   *)
(***************************************************************************)
\* the request carries no input at all
NoInputGiven ==
    IF opts.req.method = "GET"
    THEN ~opts.req.hasInput
    ELSE opts.req.body.kind = "undefined"

\* the raw input of the call at position k, before decoding
RawInputOfCall(k) ==
    IF opts.req.batch # "1"
    THEN rawInput
    ELSE IF IndexKey(k - 1) \in DOMAIN rawInput.e
         THEN JNum(rawInput.e[IndexKey(k - 1)])
         ELSE Undefined

C14_TriStateInput ==
    /\ \A k \in DOMAIN procLog :
          LET given == procLog[k].args.input
              raw == RawInputOfCall(k)
          IN  /\ (opts.req.batch # "1" /\ NoInputGiven) =>
                    raw.t = "undefined"
              /\ (opts.req.batch # "1" /\ ~NoInputGiven) =>
                    raw.t # "undefined"
              /\ raw.t = "undefined" => given = Undefined
              /\ raw.t # "undefined" =>
                    /\ given.t = raw.t
                    /\ given.n = raw.n
                    /\ given.e = raw.e
                    /\ given.de = 1
    /\ (/\ opts.req.batch # "1"
        /\ MethodServed
        /\ opts.transformer = "strict"
        /\ ContextBuilt) =>
          /\ NoInputGiven =>
                /\ Len(procLog) = 1
                /\ procLog[1].args.input = Undefined
          /\ (~MalformedRaw /\ rawInput.t = "null") =>
                /\ procLog = <<>>
                /\ Returned =>
                      /\ SingleTopLevelError
                      /\ Envs[1].error.error.cause = "transformer"

\* a GET request with input=null whose procedure received the null,
\* deserialized once
C14_Witness ==
    /\ opts.req.method = "GET"
    /\ opts.req.batch # "1"
    /\ opts.req.hasInput
    /\ opts.req.input = "null"
    /\ Len(procLog) = 1
    /\ procLog[1].args.input.t = "null"
    /\ procLog[1].args.input.de = 1

(***************************************************************************)
(* C15.  As stated: in a batch request, an object-shaped raw input with a  *)
(* key that is not a non-negative integer positional index is rejected     *)
(* with a request-level error.  In the code getInputs copies every key of  *)
(* the raw object, whatever it is: the request goes on to execution and    *)
(* the value at such a key is handed to no call.                           *)
(***************************************************************************)
\* the decimal strings of the positional indices
IndexKeys == {IndexKey(index) : index \in 0..9}

\* the raw input of a batch is an object one of whose keys is no index
HasNonIndexKey ==
    /\ ~MalformedRaw
    /\ rawInput.t = "object"
    /\ \E k \in DOMAIN rawInput.e : k \notin IndexKeys

\* C15 as stated
C15_AsStated ==
    (/\ opts.req.batch = "1"
     /\ MethodServed
     /\ ~BatchWhileDisabled
     /\ HasNonIndexKey) =>
        /\ procLog = <<>>
        /\ Returned => SingleTopLevelError

\* a batch with the raw input {"x":1} was executed and answered with the
\* result of its call, which received no input
C15_KeyAccepted ==
    /\ opts.req.method = "GET"
    /\ opts.req.batch = "1"
    /\ HasNonIndexKey
    /\ Len(procLog) = 1
    /\ procLog[1].args.input = Undefined
    /\ Returned
    /\ result.body.isArray
    /\ result.status = 200
    /\ Envs[1].kind = "result"

(***************************************************************************)
(* C16.  When a request fails several gates at once, the error reported is *)
(* that of the earliest gate in the order: batching disabled, unsupported  *)
(* method, input parse failure, context factory failure, batch input       *)
(* shape.  Later gates are not evaluated: the context factory is not       *)
(* invoked when one of the first three gates fails, and it has been        *)
(* invoked when the shape check rejects the request.                       *)
(***************************************************************************)
\* the request would fail the gate, were the gate evaluated
WouldFailMethod == ~MethodServed

WouldFailShape ==
    /\ opts.req.batch = "1"
    /\ ~MalformedRaw
    /\ rawInput.t \in {"undefined", "null", "array", "number"}

\* the error of a failing context factory
IsContextError(e) ==
    \/ e.error.error.code = "UNAUTHORIZED"
    \/ /\ e.error.error.code = "INTERNAL_SERVER_ERROR"
       /\ e.error.error.cause = "createContext"

C16_EarliestGateWins ==
    opts.req.method # "HEAD" =>
        /\ BatchWhileDisabled =>
              /\ ctxCalls = 0
              /\ Returned => (SingleTopLevelError /\ IsBatchingError(Envs[1]))
        /\ (~BatchWhileDisabled /\ WouldFailMethod) =>
              /\ ctxCalls = 0
              /\ Returned =>
                    /\ SingleTopLevelError
                    /\ TopLevelCode = "METHOD_NOT_SUPPORTED"
        /\ (~BatchWhileDisabled /\ ~WouldFailMethod /\ MalformedRaw) =>
              /\ ctxCalls = 0
              /\ Returned =>
                    (SingleTopLevelError /\ TopLevelCode = "PARSE_ERROR")
        /\ (/\ ~BatchWhileDisabled
            /\ ~WouldFailMethod
            /\ ~MalformedRaw
            /\ ContextFailed) =>
              /\ procLog = <<>>
              /\ Returned => (SingleTopLevelError /\ IsContextError(Envs[1]))
        /\ (/\ ~BatchWhileDisabled
            /\ ~WouldFailMethod
            /\ ContextBuilt
            /\ WouldFailShape) =>
              /\ ctxCalls = 1
              /\ procLog = <<>>
              /\ Returned =>
                    (SingleTopLevelError /\ TopLevelCode = "BAD_REQUEST")

\* a PATCH request with batch=1 while batching is disabled and a malformed
\* body, answered with the error of the batching gate
C16_Witness ==
    /\ opts.req.method = "PATCH"
    /\ BatchWhileDisabled
    /\ MalformedRaw
    /\ Returned
    /\ SingleTopLevelError
    /\ IsBatchingError(Envs[1])
    /\ ctxCalls = 0

(***************************************************************************)
(* C17.  As stated: the response is returned only after every procedure    *)
(* call of the request has completed, also when a call fails or the        *)
(* onError hook fails while sibling calls are pending; no failure aborts   *)
(* the join.  In the code a throw of onError inside a map callback rejects *)
(* the callback's promise, Promise.all rejects at once, and the handler    *)
(* answers from its catch block while the sibling calls are still running. *)
(***************************************************************************)
\* some procedure call of the request is still running
SomeCallPending == \E i \in DOMAIN calls : calls[i].state = "pending"

\* C17 as stated
C17_AsStated == Finished => ~SomeCallPending

\* the statement holds in every run in which the hook returns: a failing
\* call alone does not abort the join
C17_HoldsWhenHookReturns == NoHookThrew => C17_AsStated

\* a response was returned while a call of the batch was still running
C17_RespondedWhilePending ==
    /\ Returned
    /\ result.kind = "response"
    /\ Len(calls) >= 2
    /\ SomeCallPending
    /\ \E i \in DOMAIN calls : calls[i].state = "rejected"
    /\ SingleTopLevelError

(***************************************************************************)
(* C18.  As stated: onError is invoked exactly once for each failing       *)
(* procedure call, with the call's own path and decoded input and the      *)
(* shared context, before the response is produced, and never for a call   *)
(* that succeeded; for a request-level abort it is invoked exactly once    *)
(* with path and input undefined; the number of its invocations in a       *)
(* request equals the number of errors handed to responseMeta.  In the     *)
(* code a throw of the hook for a failing call sends the handler into its  *)
(* catch block, where the hook is invoked again: two or more invocations   *)
(* against the one error handed to responseMeta, and calls still pending   *)
(* then report their failures after the response.                          *)
(***************************************************************************)
\* the invocations of onError for calls, and for aborts of the request
CallLevelReports ==
    {k \in DOMAIN onErrorLog : onErrorLog[k].path # UndefinedPath}

AbortReports ==
    {k \in DOMAIN onErrorLog : onErrorLog[k].path = UndefinedPath}

\* the calls that failed
FailedCalls == {i \in DOMAIN calls : calls[i].failed}

\* the errors handed to the last invocation of responseMeta
ErrorsHanded == metaLog[Len(metaLog)].args.errors

\* every report for a call is the report of a failed call of its own, and
\* every failed call with a given path and input has one report
ReportsMatchFailures ==
    /\ Cardinality(CallLevelReports) = Cardinality(FailedCalls)
    /\ \A k \in CallLevelReports :
          /\ onErrorLog[k].ctx = ctx
          /\ onErrorLog[k].type = type
          /\ Cardinality({j \in CallLevelReports :
                             /\ onErrorLog[j].path = onErrorLog[k].path
                             /\ onErrorLog[j].input = onErrorLog[k].input})
               = Cardinality({i \in FailedCalls :
                                 /\ calls[i].path = onErrorLog[k].path
                                 /\ calls[i].input = onErrorLog[k].input
                                 /\ calls[i].error = onErrorLog[k].error})

\* C18 as stated
C18_AsStated ==
    /\ ReportsMatchFailures
    /\ Cardinality(AbortReports) <= 1
    /\ \A k \in AbortReports : onErrorLog[k].input = Undefined
    /\ (Returned /\ opts.req.method # "HEAD") =>
          /\ Len(onErrorLog) = Len(ErrorsHanded)
          /\ SingleTopLevelError => Cardinality(AbortReports) = 1
          /\ ~SingleTopLevelError => AbortReports = {}

\* the statement holds in every run in which the hook returns
C18_HoldsWhenHookReturns == NoHookThrew => C18_AsStated

\* the hook was invoked for a failing call and again for the abort its
\* throw caused, and one error was handed to responseMeta
C18_ReportedTwice ==
    /\ Returned
    /\ Cardinality(FailedCalls) = 1
    /\ Len(onErrorLog) = 2
    /\ onErrorLog[1].threw
    /\ onErrorLog[1].path # UndefinedPath
    /\ onErrorLog[2].path = UndefinedPath
    /\ onErrorLog[2].error.cause = "onError"
    /\ Len(ErrorsHanded) = 1

(***************************************************************************)
(* C20.  The error list handed to responseMeta is exactly the errors of    *)
(* the failing calls, in path order: its length is the number of error     *)
(* envelopes of the response, and zero iff every call succeeded.  The data *)
(* handed to the hook is a sequence holding every envelope, one for a      *)
(* single call and N for a batch.  On a request-level abort the error list *)
(* holds exactly the one aborting error.                                   *)
(***************************************************************************)
\* the data handed to the last invocation of responseMeta
DataHanded == metaLog[Len(metaLog)].args.data

\* the error envelopes among the data handed, in order
ErrorEnvelopesHanded == SelectSeq(DataHanded, LAMBDA e : e.kind = "error")

\* the failing calls, in path order
FailedInPathOrder == SelectSeq(calls, LAMBDA call : call.failed)

C20_ErrorListMatchesEnvelopes ==
    metaLog # <<>> =>
        /\ Len(metaLog) = 1
        /\ Returned
        /\ Len(DataHanded) = Len(Envs)
        /\ \A i \in 1..Len(Envs) :
              Envs[i] = [DataHanded[i] EXCEPT !.serialized = TRUE]
        /\ Len(ErrorsHanded) = Len(ErrorEnvelopesHanded)
        /\ Len(ErrorsHanded) =
              Cardinality({i \in 1..Len(Envs) : Envs[i].kind = "error"})
        /\ \A k \in 1..Len(ErrorsHanded) :
              ErrorsHanded[k] = ErrorEnvelopesHanded[k].error.error
        /\ IF SingleTopLevelError
           THEN /\ Len(DataHanded) = 1
                /\ ErrorsHanded = <<Envs[1].error.error>>
                /\ \E k \in AbortReports :
                      onErrorLog[k].error = ErrorsHanded[1]
           ELSE /\ Len(DataHanded) = Len(paths.list)
                /\ Len(DataHanded) =
                      (IF opts.req.batch = "1"
                       THEN Len(SplitOnComma(opts.path))
                       ELSE 1)
                /\ Len(ErrorsHanded) = Len(FailedInPathOrder)
                /\ \A k \in 1..Len(ErrorsHanded) :
                      ErrorsHanded[k] = FailedInPathOrder[k].error
                /\ (ErrorsHanded = <<>>) <=>
                      (\A i \in DOMAIN calls : ~calls[i].failed)

\* a batch of two whose calls both failed, with different errors, the
\* second having settled first: the hook was handed both errors in path
\* order
C20_Witness ==
    /\ Returned
    /\ result.body.isArray
    /\ Len(calls) = 2
    /\ settled = <<2, 1>>
    /\ Len(ErrorsHanded) = 2
    /\ ErrorsHanded[1].code = "INTERNAL_SERVER_ERROR"
    /\ ErrorsHanded[2].code = "NOT_FOUND"
    /\ Len(DataHanded) = 2

(***************************************************************************)
(* C19.  As stated: if the context factory and every procedure call of a   *)
(* request eventually complete, the request eventually returns a response; *)
(* if some procedure call of a batch never completes, the request never    *)
(* returns a response.  The handler's own steps are fair: the event loop   *)
(* runs the handler when it is called and resumes it when the promise it   *)
(* awaits has settled.  The completion of the context factory and of the   *)
(* calls is the claim's hypothesis.  In the code a throw of onError in the *)
(* handler's catch block rejects the handler's promise, so no response is  *)
(* returned although everything completed, and a throw of onError for a    *)
(* failing call lets the handler answer while a sibling never completes.   *)
(***************************************************************************)
\* the steps the handler takes by itself
HandlerStep ==
    \/ HeadProbe
    \/ RejectRequest
    \/ StartContext
    \/ JoinFulfilled
    \/ JoinRejected

LiveSpec == Init /\ [][Next]_vars /\ WF_vars(HandlerStep)

\* the context factory, once invoked, completes
ContextCompletes == <>[](pc # "awaitCtx")

\* every procedure call, once started, completes
CallsComplete == <>[](~SomeCallPending)

\* C19 as stated
C19_AsStated ==
    /\ (ContextCompletes /\ CallsComplete) => <>Returned
    /\ (<>[]SomeCallPending) => [](~Returned)

\* the statement for the runs in which the hook returns
C19_HoldsWhenHookReturns ==
    /\ (ContextCompletes /\ CallsComplete /\ []NoHookThrew) => <>Returned
    /\ ((<>[]SomeCallPending) /\ []NoHookThrew) => [](~Returned)

\* every call of a batch completed and the handler's promise rejected: no
\* response was returned
C19_CompletedWithoutResponse ==
    /\ pc = "rejected"
    /\ Len(calls) >= 2
    /\ ~SomeCallPending
    /\ join.state = "rejected"
    /\ Len(onErrorLog) >= 2
    /\ onErrorLog[Len(onErrorLog)].threw

====
